---- MODULE Spec2Model ----
(***************************************************************************)
(* JSONSchemaConverter (crewai/agent/json_schema_converter.py): the        *)
(* conversion of a JSON Schema document into Python / Pydantic types.      *)
(*                                                                         *)
(* Encoding of the Python values:                                          *)
(*   - a str that the code manipulates (tool, field and property names,    *)
(*     model names) is a sequence of one-character strings;                *)
(*   - a dict (schema node) is a function from its keys to their values,   *)
(*     so "k in d" is k \in DOMAIN d and {} is <<>>;                       *)
(*   - the "properties" dict, whose iteration order the code uses, is a    *)
(*     sequence of [name, schema] entries with distinct names;             *)
(*   - a JSON scalar inside "enum" is [str |-> s], [int |-> i] or          *)
(*     [null |-> TRUE]; a "type" value is [str |-> s] or [list |-> seq],   *)
(*     and an absent value (None) is [none |-> TRUE];                      *)
(*   - a Python type is a record tagged by its field t;                    *)
(*   - a call returns [ok |-> TRUE, ty, st] or, when it raises,            *)
(*     [ok |-> FALSE, exc, st]; st threads the side effects of the call    *)
(*     (uuid4 draws made, model classes created).                          *)
(***************************************************************************)
EXTENDS Integers, Sequences, FiniteSets, TLC

(***************************************************************************)
(* Bounds of the model.                                                    *)
(***************************************************************************)
\* how many of the 16^8 values of uuid4().hex[:8] a draw may produce
NumSuffixes == 2
\* longest "enum" list drawn
MaxEnumLen == 2
\* most branches of an anyOf / oneOf list, and longest "type" list, drawn
MaxOptions == 2
\* most branches of an allOf list drawn
MaxAllOf == 2
\* most entries of a "properties" mapping handed to the record builder
MaxProps == 2
\* most calls made on the converter in one behaviour
MaxCalls == 2

(***************************************************************************)
(* Python str operations on sequences of characters.                       *)
(***************************************************************************)
Lowers == <<"a","b","c","d","e","f","g","h","i","j","k","l","m",
            "n","o","p","q","r","s","t","u","v","w","x","y","z">>
Uppers == <<"A","B","C","D","E","F","G","H","I","J","K","L","M",
            "N","O","P","Q","R","S","T","U","V","W","X","Y","Z">>
HexDigits == <<"0","1","2","3","4","5","6","7","8","9","a","b","c","d","e","f">>

IsLower(c) == \E i \in 1..Len(Lowers) : Lowers[i] = c
IsUpper(c) == \E i \in 1..Len(Uppers) : Uppers[i] = c
IsCased(c) == IsLower(c) \/ IsUpper(c)
ToUpper(c) == IF IsLower(c) THEN Uppers[CHOOSE i \in 1..Len(Lowers) : Lowers[i] = c] ELSE c
ToLower(c) == IF IsUpper(c) THEN Lowers[CHOOSE i \in 1..Len(Uppers) : Uppers[i] = c] ELSE c

\* str.title(): a cased character is upper-cased when it follows an uncased
\* one (or starts the string) and lower-cased when it follows a cased one
RECURSIVE TitleFrom(_, _, _)
TitleFrom(s, i, prevCased) ==
    IF i > Len(s) THEN <<>>
    ELSE LET c == s[i]
         IN  <<IF IsCased(c) THEN (IF prevCased THEN ToLower(c) ELSE ToUpper(c)) ELSE c>>
                \o TitleFrom(s, i + 1, IsCased(c))
Title(s) == TitleFrom(s, 1, FALSE)

\* str.replace(old, new) for one-character old and new
Replace(s, old, new) == [i \in 1..Len(s) |-> IF s[i] = old THEN new ELSE s[i]]

\* the number of characters kept of uuid4().hex
SuffixLen == 8
\* format(v, "08x"): the SuffixLen hex digits of a 32-bit value
Power16(k) == IF k = 0 THEN 1 ELSE IF k = 1 THEN 16 ELSE IF k = 2 THEN 256
              ELSE IF k = 3 THEN 4096 ELSE IF k = 4 THEN 65536
              ELSE IF k = 5 THEN 1048576 ELSE IF k = 6 THEN 16777216 ELSE 268435456
Hex8(v) == [k \in 1..SuffixLen |-> HexDigits[((v \div Power16(SuffixLen - k)) % 16) + 1]]
\* the outcomes of uuid4().hex[:8] that the model draws from
Uuid4Hex8 == { Hex8(v) : v \in 0..(NumSuffixes - 1) }

GeneratedPrefix == <<"G","e","n","e","r","a","t","e","d","_">>
SchemaSuffix == <<"S","c","h","e","m","a">>
ItemSuffix == <<"I","t","e","m">>

(***************************************************************************)
(* dict access.                                                            *)
(***************************************************************************)
NoneV == [none |-> TRUE]
IsNone(v) == "none" \in DOMAIN v
IsStr(v)  == "str" \in DOMAIN v
IsList(v) == "list" \in DOMAIN v
IsNull(v) == "null" \in DOMAIN v
Has(d, k) == k \in DOMAIN d
\* "if d.get(k):" for a key whose value is a list, a dict or a properties mapping
Truthy(d, k) == Has(d, k) /\ DOMAIN d[k] # {}
\* "k in properties" and properties[k] for the ordered properties mapping
PropNames(props) == { props[i].name : i \in 1..Len(props) }
PropIndex(props, name) == CHOOSE i \in 1..Len(props) : props[i].name = name
PropGet(props, name) == props[PropIndex(props, name)].schema
\* properties[name] = schema: an existing key keeps its position
PropSet(props, name, schema) ==
    IF name \in PropNames(props)
    THEN [props EXCEPT ![PropIndex(props, name)] = [name |-> name, schema |-> schema]]
    ELSE Append(props, [name |-> name, schema |-> schema])
\* merged.update(other)
RECURSIVE PropUpdate(_, _, _)
PropUpdate(merged, other, i) ==
    IF i > Len(other) THEN merged
    ELSE PropUpdate(PropSet(merged, other[i].name, other[i].schema), other, i + 1)

(***************************************************************************)
(* Python types.                                                           *)
(***************************************************************************)
AnyT      == [t |-> "Any"]
StrT      == [t |-> "str"]
FloatT    == [t |-> "float"]
IntT      == [t |-> "int"]
BoolT     == [t |-> "bool"]
NoneTypeT == [t |-> "NoneType"]
ListT     == [t |-> "list"]
DictT     == [t |-> "dict"]
DateT     == [t |-> "date"]
DateTimeT == [t |-> "datetime"]
TimeT     == [t |-> "time"]
ListOf(item) == [t |-> "list_of", item |-> item]

\* order-preserving removal of repeated elements of a sequence of strings
RECURSIVE DedupValues(_, _, _)
DedupValues(vals, i, acc) ==
    IF i > Len(vals) THEN acc
    ELSE DedupValues(vals, i + 1,
            IF \E j \in 1..Len(acc) : acc[j] = vals[i] THEN acc ELSE Append(acc, vals[i]))
\* Literal[tuple(values)]: typing drops repeated parameters
LiteralOf(vals) == [t |-> "Literal", values |-> DedupValues(vals, 1, <<>>)]

\* == on types: classes by identity, Literal and unions by their sets of
\* parameters, list[X] by its parameter
RECURSIVE TypeEq(_, _)
TypeEq(a, b) ==
    IF a.t # b.t THEN FALSE
    ELSE IF a.t = "Literal"
         THEN { a.values[i] : i \in 1..Len(a.values) } = { b.values[i] : i \in 1..Len(b.values) }
    ELSE IF a.t = "Union"
         THEN /\ \A i \in 1..Len(a.args) : \E j \in 1..Len(b.args) : TypeEq(a.args[i], b.args[j])
              /\ \A j \in 1..Len(b.args) : \E i \in 1..Len(a.args) : TypeEq(a.args[i], b.args[j])
    ELSE IF a.t = "list_of" THEN TypeEq(a.item, b.item)
    ELSE IF a.t = "Model" THEN a.id = b.id
    ELSE TRUE

\* list(dict.fromkeys(types)): first occurrences, in order
RECURSIVE DedupTypes(_, _, _)
DedupTypes(types, i, acc) ==
    IF i > Len(types) THEN acc
    ELSE DedupTypes(types, i + 1,
            IF \E j \in 1..Len(acc) : TypeEq(acc[j], types[i]) THEN acc ELSE Append(acc, types[i]))

UnionArgs(ty) == IF ty.t = "Union" THEN ty.args ELSE <<ty>>
\* a | b: the parameters of both sides, flattened, without repetitions; a
\* union of one parameter is that parameter
PyOr(a, b) ==
    LET u == DedupTypes(UnionArgs(a) \o UnionArgs(b), 1, <<>>)
    IN  IF Len(u) = 1 THEN u[1] ELSE [t |-> "Union", args |-> u]

(***************************************************************************)
(* Outcomes of a call and the side effects threaded through it.            *)
(***************************************************************************)
\* draws: uuid4() calls made so far; made: names of the classes created so
\* far by create_model, in creation order
NoEffects == [draws |-> 0, made |-> <<>>]
Ok(ty, st) == [ok |-> TRUE, ty |-> ty, st |-> st]
Raise(exc, st) == [ok |-> FALSE, exc |-> exc, st |-> st]

(***************************************************************************)
(* The converter.  rnd is the sequence of values that the successive      *)
(* uuid4().hex[:8] evaluations of the call return.                         *)
(***************************************************************************)
\* _get_formatted_type
GetFormattedType(format_type) ==
    IF format_type = "date" THEN DateT
    ELSE IF format_type = "date-time" THEN DateTimeT
    ELSE IF format_type = "time" THEN TimeT
    ELSE StrT

\* simple_type_mapping.get(json_type, Any) for a str or None key
SimpleTypeMapping(json_type) ==
    IF IsNone(json_type) THEN AnyT
    ELSE IF json_type.str = "string" THEN StrT
    ELSE IF json_type.str = "number" THEN FloatT
    ELSE IF json_type.str = "integer" THEN IntT
    ELSE IF json_type.str = "boolean" THEN BoolT
    ELSE IF json_type.str = "null" THEN NoneTypeT
    ELSE AnyT

\* _get_simple_type: a list is unhashable, so looking it up raises TypeError
GetSimpleType(json_type, st) ==
    IF IsList(json_type) THEN Raise("TypeError", st)
    ELSE Ok(SimpleTypeMapping(json_type), st)

\* type_mapping.get(t, Any) of _handle_type_union
TypeUnionMapping(t) ==
    IF t = "string" THEN StrT
    ELSE IF t = "number" THEN FloatT
    ELSE IF t = "integer" THEN IntT
    ELSE IF t = "boolean" THEN BoolT
    ELSE IF t = "null" THEN NoneTypeT
    ELSE IF t = "array" THEN ListT
    ELSE IF t = "object" THEN DictT
    ELSE AnyT

\* result = unique_types[0]; for t in unique_types[1:]: result = result | t
RECURSIVE OrAll(_, _, _)
OrAll(result, unique_types, i) ==
    IF i > Len(unique_types) THEN result
    ELSE OrAll(PyOr(result, unique_types[i]), unique_types, i + 1)

\* BuildUnionType returning after the first unique type
BuildUnionTypeFirstOnly(types, st) ==
    LET unique_types == DedupTypes(types, 1, <<>>)
    IN  IF Len(unique_types) = 0 THEN Raise("IndexError", st) ELSE Ok(unique_types[1], st)

\* _build_union_type: unique_types[0] of an empty list raises IndexError
BuildUnionType(types, st) ==
    LET unique_types == DedupTypes(types, 1, <<>>)
    IN  IF Len(unique_types) = 1 THEN Ok(unique_types[1], st)
        ELSE IF Len(unique_types) = 0 THEN Raise("IndexError", st)
        ELSE Ok(OrAll(unique_types[1], unique_types, 2), st)

\* _handle_type_union
HandleTypeUnion(json_types, st) ==
    BuildUnionType([i \in 1..Len(json_types) |-> TypeUnionMapping(json_types[i])], st)

\* _handle_enum
HandleEnum(field_schema, st) ==
    LET enum_values == field_schema["enum"]
        non_null_values == SelectSeq(enum_values, LAMBDA v : ~IsNull(v))
    IN  IF enum_values = <<>> THEN Ok(StrT, st)
        ELSE IF non_null_values = <<>> THEN Ok(NoneTypeT, st)
        ELSE IF \A i \in 1..Len(non_null_values) : IsStr(non_null_values[i])
        THEN LET literal_type ==
                    LiteralOf([i \in 1..Len(non_null_values) |-> non_null_values[i].str])
             IN  IF \E i \in 1..Len(enum_values) : IsNull(enum_values[i])
                 THEN Ok(PyOr(literal_type, NoneTypeT), st)
                 ELSE Ok(literal_type, st)
        ELSE GetSimpleType(IF Has(field_schema, "type") THEN field_schema["type"]
                           ELSE [str |-> "string"], st)

\* "if sub_schema.get("type"):"
TruthyType(d) ==
    /\ Has(d, "type")
    /\ IF IsList(d["type"]) THEN d["type"].list # <<>> ELSE d["type"].str # ""

\* AddMissing without its "not in merged_properties" test
AddMissingOverwrite(merged, props, i) == PropUpdate(merged, props, i)

\* the loop of lines 167-169: a variant's properties are added under the
\* names that merged_properties does not hold yet
RECURSIVE AddMissing(_, _, _)
AddMissing(merged, props, i) ==
    IF i > Len(props) THEN merged
    ELSE AddMissing(IF props[i].name \in PropNames(merged) THEN merged
                    ELSE Append(merged, props[i]), props, i + 1)

\* "for variant in sub_schema[union_key]"
RECURSIVE VariantsLoop(_, _, _)
VariantsLoop(merged, variants, i) ==
    IF i > Len(variants) THEN merged
    ELSE VariantsLoop(IF Truthy(variants[i], "properties")
                      THEN AddMissing(merged, variants[i]["properties"], 1)
                      ELSE merged, variants, i + 1)

FoldVariants(merged, sub_schema, union_key) ==
    IF Has(sub_schema, union_key) THEN VariantsLoop(merged, sub_schema[union_key], 1)
    ELSE merged

\* MergeBranchProperties keeping the entry of the earlier branch
MergeBranchPropertiesFirstWins(merged, sub_schema) ==
    IF Truthy(sub_schema, "properties")
    THEN AddMissing(merged, sub_schema["properties"], 1)
    ELSE merged

\* "merged_properties.update(sub_schema["properties"])"
MergeBranchProperties(merged, sub_schema) ==
    IF Truthy(sub_schema, "properties")
    THEN PropUpdate(merged, sub_schema["properties"], 1)
    ELSE merged

\* "merged_required.extend(sub_schema["required"])"
MergeBranchRequired(required, sub_schema) ==
    IF Truthy(sub_schema, "required") THEN required \o sub_schema["required"]
    ELSE required

\* one iteration of "for sub_schema in field_schema["allOf"]"
AllOfBranch(m, sub_schema) ==
    [found    |-> IF TruthyType(sub_schema) THEN sub_schema["type"] ELSE m.found,
     required |-> MergeBranchRequired(m.required, sub_schema),
     props    |-> FoldVariants(
                     FoldVariants(MergeBranchProperties(m.props, sub_schema),
                                  sub_schema, "anyOf"),
                     sub_schema, "oneOf")]

RECURSIVE AllOfLoop(_, _, _)
AllOfLoop(m, branches, i) ==
    IF i > Len(branches) THEN m
    ELSE AllOfLoop(AllOfBranch(m, branches[i]), branches, i + 1)

\* merged_properties, merged_required and found_type after the loop
AllOfMerge(field_schema) ==
    AllOfLoop([found |-> NoneV, required |-> <<>>, props |-> <<>>], field_schema["allOf"], 1)

\* the fallback of _handle_allof
AllOfFallback(found_type) ==
    IF IsStr(found_type) /\ found_type.str = "object" THEN DictT
    ELSE IF IsStr(found_type) /\ found_type.str = "array" THEN ListT
    ELSE DictT

\* _build_field_description: the parts, in order (the result is their
\* ". ".join, or "" when there is none), for the keys the drawn schemas
\* carry: description, format and enum
BuildFieldDescription(prop_schema) ==
    (IF Has(prop_schema, "description") /\ prop_schema["description"] # ""
    THEN <<[label |-> "", value |-> prop_schema["description"]]>> ELSE <<>>)
    \o (IF Has(prop_schema, "format") /\ prop_schema["format"] # ""
        THEN <<[label |-> "Format", value |-> prop_schema["format"]]>> ELSE <<>>)
    \o (IF Truthy(prop_schema, "enum")
        THEN <<[label |-> "Allowed values", value |-> prop_schema["enum"]]>> ELSE <<>>)

\* IsRequired looking at the first required name only
IsRequiredFirstOnly(prop_name, required_fields) ==
    Len(required_fields) > 0 /\ required_fields[1] = prop_name

\* is_required = prop_name in required_fields
IsRequired(prop_name, required_fields) ==
    \E i \in 1..Len(required_fields) : required_fields[i] = prop_name

\* the entry of field_definitions for one property
FieldDefinition(prop_name, prop_type, prop_description, is_required) ==
    IF is_required
    THEN [name |-> prop_name, type |-> prop_type, required |-> TRUE,
          default |-> "Ellipsis", description |-> prop_description]
    ELSE [name |-> prop_name, type |-> PyOr(prop_type, NoneTypeT), required |-> FALSE,
          default |-> "None", description |-> prop_description]

\* f"Generated_{field_name}_{uuid.uuid4().hex[:8]}"
ModelName(field_name, hex8) == GeneratedPrefix \o field_name \o <<"_">> \o hex8

\* ObjectHasProperties testing the presence of the key, not its truth
ObjectHasPropertiesKey(field_schema) == Has(field_schema, "properties")

\* "properties" of _handle_object_type leads to a model when it is truthy
ObjectHasProperties(field_schema) == Truthy(field_schema, "properties")

RECURSIVE JsonTypeToPython(_, _, _, _)
RECURSIVE ApplyRule(_, _, _, _, _)
RECURSIVE CreatePydanticModel(_, _, _, _, _)
RECURSIVE FieldsLoop(_, _, _, _, _, _)
RECURSIVE UnionLoop(_, _, _, _, _, _)

\* _create_pydantic_model
CreatePydanticModel(field_name, properties, required_fields, st, rnd) ==
    LET d == st.draws + 1
        model_name == ModelName(field_name, rnd[d])
        r == FieldsLoop(properties, 1, required_fields, <<>>, [st EXCEPT !.draws = d], rnd)
    IN  IF ~r.ok THEN r
        ELSE Ok([t |-> "Model", id |-> d, name |-> model_name, fields |-> r.fields],
                [r.st EXCEPT !.made = Append(@, model_name)])

\* "for prop_name, prop_schema in properties.items()"
FieldsLoop(properties, i, required_fields, fields, st, rnd) ==
    IF i > Len(properties) THEN [ok |-> TRUE, fields |-> fields, st |-> st]
    ELSE LET prop_name == properties[i].name
             prop_schema == properties[i].schema
             r == JsonTypeToPython(prop_schema, Title(prop_name), st, rnd)
         IN  IF ~r.ok THEN r
             ELSE FieldsLoop(properties, i + 1, required_fields,
                     Append(fields, FieldDefinition(prop_name, r.ty,
                                        BuildFieldDescription(prop_schema),
                                        IsRequired(prop_name, required_fields))),
                     r.st, rnd)

\* _handle_allof
HandleAllOf(field_schema, field_name, st, rnd) ==
    LET m == AllOfMerge(field_schema)
    IN  IF m.props # <<>>
        THEN CreatePydanticModel(field_name, m.props, m.required, st, rnd)
        ELSE Ok(AllOfFallback(m.found), st)

\* "for option in field_schema[key]" of _handle_union_schemas
UnionLoop(options, i, field_name, types, st, rnd) ==
    IF i > Len(options) THEN [ok |-> TRUE, types |-> types, st |-> st]
    ELSE IF Has(options[i], "const")
    THEN UnionLoop(options, i + 1, field_name, Append(types, StrT), st, rnd)
    ELSE LET r == JsonTypeToPython(options[i], field_name, st, rnd)
         IN  IF ~r.ok THEN r
             ELSE UnionLoop(options, i + 1, field_name, Append(types, r.ty), r.st, rnd)

\* _handle_union_schemas
HandleUnionSchemas(field_schema, field_name, st, rnd) ==
    LET key == IF Has(field_schema, "anyOf") THEN "anyOf" ELSE "oneOf"
        r == UnionLoop(field_schema[key], 1, field_name, <<>>, st, rnd)
    IN  IF ~r.ok THEN r ELSE BuildUnionType(r.types, r.st)

\* _handle_array_type
HandleArrayType(field_schema, field_name, st, rnd) ==
    IF Truthy(field_schema, "items")
    THEN LET r == JsonTypeToPython(field_schema["items"], field_name \o ItemSuffix, st, rnd)
         IN  IF ~r.ok THEN r ELSE Ok(ListOf(r.ty), r.st)
    ELSE Ok(ListT, st)

\* _handle_object_type
HandleObjectType(field_schema, field_name, st, rnd) ==
    IF ObjectHasProperties(field_schema)
    THEN CreatePydanticModel(field_name, field_schema["properties"],
                             IF Has(field_schema, "required") THEN field_schema["required"]
                             ELSE <<>>, st, rnd)
    ELSE Ok(DictT, st)

\* DispatchRule with the allOf test moved in front of the enum test
DispatchRuleAllOfFirst(field_schema) ==
    LET json_type == IF Has(field_schema, "type") THEN field_schema["type"] ELSE NoneV
    IN  IF DOMAIN field_schema = {} THEN 1
        ELSE IF Has(field_schema, "$ref") THEN 2
        ELSE IF Has(field_schema, "allOf") THEN 4
        ELSE IF Has(field_schema, "enum") THEN 3
        ELSE IF Has(field_schema, "anyOf") \/ Has(field_schema, "oneOf") THEN 5
        ELSE IF IsList(json_type) THEN 6
        ELSE IF IsStr(json_type) /\ json_type.str = "array" THEN 7
        ELSE IF IsStr(json_type) /\ json_type.str = "object" THEN 8
        ELSE IF IsStr(json_type) /\ json_type.str = "string" /\ Has(field_schema, "format")
        THEN 9
        ELSE 10

\* the number of the dispatch rule of _json_type_to_python that a node takes
DispatchRule(field_schema) ==
    LET json_type == IF Has(field_schema, "type") THEN field_schema["type"] ELSE NoneV
    IN  IF DOMAIN field_schema = {} THEN 1
        ELSE IF Has(field_schema, "$ref") THEN 2
        ELSE IF Has(field_schema, "enum") THEN 3
        ELSE IF Has(field_schema, "allOf") THEN 4
        ELSE IF Has(field_schema, "anyOf") \/ Has(field_schema, "oneOf") THEN 5
        ELSE IF IsList(json_type) THEN 6
        ELSE IF IsStr(json_type) /\ json_type.str = "array" THEN 7
        ELSE IF IsStr(json_type) /\ json_type.str = "object" THEN 8
        ELSE IF IsStr(json_type) /\ json_type.str = "string" /\ Has(field_schema, "format")
        THEN 9
        ELSE 10

\* the branch of _json_type_to_python that rule number `rule` returns through
ApplyRule(rule, field_schema, field_name, st, rnd) ==
    LET json_type == IF Has(field_schema, "type") THEN field_schema["type"] ELSE NoneV
    IN  CASE rule = 1 -> Ok(AnyT, st)
          [] rule = 2 -> Ok(AnyT, st)
          [] rule = 3 -> HandleEnum(field_schema, st)
          [] rule = 4 -> HandleAllOf(field_schema, field_name, st, rnd)
          [] rule = 5 -> HandleUnionSchemas(field_schema, field_name, st, rnd)
          [] rule = 6 -> HandleTypeUnion(json_type.list, st)
          [] rule = 7 -> HandleArrayType(field_schema, field_name, st, rnd)
          [] rule = 8 -> HandleObjectType(field_schema, field_name, st, rnd)
          [] rule = 9 -> Ok(GetFormattedType(field_schema["format"]), st)
          [] OTHER    -> GetSimpleType(json_type, st)

\* _json_type_to_python
JsonTypeToPython(field_schema, field_name, st, rnd) ==
    ApplyRule(DispatchRule(field_schema), field_schema, field_name, st, rnd)

\* ToolModelName without the replacement of spaces
ToolModelNameDashOnly(tool_name) == Replace(tool_name, "-", "_") \o SchemaSuffix

\* model_name of json_schema_to_pydantic
ToolModelName(tool_name) == Replace(Replace(tool_name, "-", "_"), " ", "_") \o SchemaSuffix

\* json_schema_to_pydantic
JsonSchemaToPydantic(tool_name, json_schema, st, rnd) ==
    CreatePydanticModel(ToolModelName(tool_name),
                        IF Has(json_schema, "properties") THEN json_schema["properties"] ELSE <<>>,
                        IF Has(json_schema, "required") THEN json_schema["required"] ELSE <<>>,
                        st, rnd)

(***************************************************************************)
(* The schemas, names and lists that the calls are drawn from.             *)
(***************************************************************************)
SeqsUpTo(S, n) == UNION { [1..k -> S] : k \in 0..n }
\* a keyword that may be absent: the empty mapping adds no key
Opt(S) == S \cup {<<>>}

NameField == <<"F","i","e","l","d">>
NameX == <<"x">>
NameY == <<"y">>
NameZ == <<"z">>
NameAb == <<"a","b">>
NameAB == <<"a","B">>
ToolMyTool == <<"M","y"," ","T","o","o","l">>
ToolDashed == <<"a","-","b">>
ToolT == <<"T">>

TypeNode(s) == "type" :> [str |-> s]
Prop(name, schema) == [name |-> name, schema |-> schema]
StringNode  == TypeNode("string")
IntegerNode == TypeNode("integer")
BooleanNode == TypeNode("boolean")
DescribedString == TypeNode("string") @@ ("description" :> "a name")
ObjectX == TypeNode("object") @@ ("properties" :> <<Prop(NameX, StringNode)>>)
ArrayOfInteger == TypeNode("array") @@ ("items" :> IntegerNode)
EmptyAnyOf == "anyOf" :> <<>>

EnumValues == { [str |-> "a"], [str |-> "b"], [null |-> TRUE], [int |-> 1] }
EnumTypes == Opt({ TypeNode("integer"), TypeNode("string"),
                   "type" :> [list |-> <<"integer", "null">>] })
EnumNodes == { ("enum" :> e) @@ ty : e \in SeqsUpTo(EnumValues, MaxEnumLen), ty \in EnumTypes }

TypeListNodes ==
    { "type" :> [list |-> l] :
        l \in SeqsUpTo({"string", "integer", "null", "array", "object", "foo"}, MaxOptions) }

OptionPool ==
    { <<>>, StringNode, DescribedString, IntegerNode, "const" :> [str |-> "k"],
      ObjectX, ArrayOfInteger,
      "enum" :> <<[str |-> "a"], [str |-> "b"]>>,
      "enum" :> <<[str |-> "b"], [str |-> "a"]>>,
      "anyOf" :> <<StringNode, IntegerNode>>,
      "type" :> [list |-> <<"integer", "string">>] }
UnionNodes ==
    { key :> opts : key \in {"anyOf", "oneOf"}, opts \in SeqsUpTo(OptionPool, MaxOptions) }

\* branches of an allOf: own properties, own required, nested variants
VariantX  == "properties" :> <<Prop(NameX, BooleanNode)>>
VariantXY == "properties" :> <<Prop(NameX, StringNode), Prop(NameY, BooleanNode)>>
VariantY  == "properties" :> <<Prop(NameY, IntegerNode)>>
BranchPool ==
    { <<>>,
      "properties" :> <<Prop(NameX, StringNode)>>,
      ("properties" :> <<Prop(NameX, IntegerNode), Prop(NameY, StringNode)>>)
          @@ ("required" :> <<NameX>>),
      ("properties" :> <<>>) @@ ("required" :> <<NameY, NameZ>>),
      "properties" :> <<>>,
      "anyOf" :> <<VariantX, VariantXY>>,
      ("properties" :> <<Prop(NameY, StringNode)>>) @@ ("oneOf" :> <<VariantY, StringNode, VariantXY>>),
      ("anyOf" :> <<VariantY>>) @@ ("oneOf" :> <<VariantX>>) @@ ("required" :> <<NameY>>),
      TypeNode("array"),
      TypeNode("object") @@ ("properties" :> <<Prop(NameZ, EmptyAnyOf)>>) }
\* keys on the allOf node itself, beside its branches
OwnKeys == Opt({ ("properties" :> <<Prop(NameZ, IntegerNode)>>) @@ ("required" :> <<NameZ, NameY>>) })
AllOfNodes ==
    { ("allOf" :> bs) @@ own : bs \in SeqsUpTo(BranchPool, MaxAllOf), own \in OwnKeys }

\* nodes carrying several of the keywords that the dispatch looks at
KeywordNodes ==
    { ref @@ en @@ allof @@ anyof @@ oneof @@ ty @@ fmt @@ items @@ props :
        ref   \in Opt({ "$ref" :> "#/defs/a" }),
        en    \in Opt({ "enum" :> <<[str |-> "a"], [str |-> "b"]>>,
                        "enum" :> <<[int |-> 1], [str |-> "a"]>> }),
        allof \in Opt({ "allOf" :> <<"properties" :> <<Prop(NameY, IntegerNode)>>>> }),
        anyof \in Opt({ "anyOf" :> <<StringNode, IntegerNode>> }),
        oneof \in Opt({ "oneOf" :> <<BooleanNode>> }),
        ty    \in Opt({ TypeNode("string"), TypeNode("integer"), TypeNode("array"),
                        TypeNode("object"), TypeNode("foo"),
                        "type" :> [list |-> <<"string", "null">>] }),
        fmt   \in Opt({ "format" :> "date" }),
        items \in Opt({ "items" :> IntegerNode }),
        props \in Opt({ ("properties" :> <<Prop(NameX, StringNode)>>)
                           @@ ("required" :> <<NameX>>) }) }

FormatNodes ==
    { TypeNode(ty) @@ ("format" :> f) :
        ty \in {"string", "integer"},
        f \in {"date", "date-time", "time", "email", "uri", "uuid", "hostname",
               "ipv4", "ipv6", "binary"} }
SimpleNodes ==
    { TypeNode(ty) : ty \in {"string", "number", "integer", "boolean", "null", "any"} }
ArrayNodes ==
    { TypeNode("array") @@ it :
        it \in Opt({ "items" :> n : n \in {<<>>, IntegerNode, ObjectX, ArrayOfInteger, EmptyAnyOf} }) }
ObjectNodes ==
    { TypeNode("object") @@ p @@ r :
        p \in Opt({ "properties" :> ps :
                      ps \in { <<>>, <<Prop(NameX, StringNode)>>,
                               <<Prop(NameX, ObjectX), Prop(NameY, ObjectX)>> } }),
        r \in Opt({ "required" :> <<NameX>>, "required" :> <<NameZ>> }) }

ResolveNodes ==
    KeywordNodes \cup EnumNodes \cup TypeListNodes \cup UnionNodes \cup AllOfNodes
    \cup FormatNodes \cup SimpleNodes \cup ArrayNodes \cup ObjectNodes

\* properties mappings and required lists handed to the record builder
PropSchemas ==
    { DescribedString, TypeNode("null"), ObjectX, EmptyAnyOf,
      "enum" :> <<[str |-> "a"], [null |-> TRUE]>> }
PropNamePool == { NameX, NameAb, NameAB }
PropertyMaps ==
    { ps \in UNION { [1..k -> [name : PropNamePool, schema : PropSchemas]] : k \in 0..MaxProps } :
        \A i, j \in 1..Len(ps) : i # j => ps[i].name # ps[j].name }
RequiredLists == { <<>>, <<NameX>>, <<NameAb>>, <<NameZ, NameX>> }

ToolNames == { ToolMyTool, ToolDashed, ToolT }
ToolSchemas ==
    { <<>>,
      TypeNode("object") @@ ("properties" :> <<Prop(NameX, StringNode)>>)
                         @@ ("required" :> <<NameX>>),
      TypeNode("object") @@ ("properties" :> <<>>),
      ("properties" :> <<Prop(NameX, ObjectX), Prop(NameY, StringNode)>>),
      ("required" :> <<NameX>>),
      ("properties" :> <<Prop(NameX, EmptyAnyOf)>>) }

\* The first call of a behaviour is drawn from all of the above.  The calls
\* after it are drawn from calls that create model classes: a call does not
\* read what earlier calls did, and later calls matter only through the
\* names they add to the classes the process holds.
ResolveInputs(n) == IF n = 0 THEN ResolveNodes ELSE { ObjectX }
BuildInputs(n) ==
    IF n = 0 THEN { [properties |-> ps, required |-> rs] : ps \in PropertyMaps, rs \in RequiredLists }
    ELSE { [properties |-> <<Prop(NameX, StringNode)>>, required |-> <<>>] }
ConvertInputs(n) ==
    IF n = 0 THEN { [tool_name |-> tn, schema |-> sc] : tn \in ToolNames, sc \in ToolSchemas }
    ELSE { [tool_name |-> ToolT, schema |-> ("properties" :> <<Prop(NameX, StringNode)>>)] }

(***************************************************************************)
(* The state machine: calls made, one after another, on one converter.     *)
(***************************************************************************)
VARIABLES
    call,      \* the last call made: its operation and arguments
    result,    \* the outcome of the last call
    produced,  \* names of the model classes created so far, in creation order
    drawn,     \* the values that the uuid4().hex[:8] of the last call returned
    calls      \* number of calls made

vars == <<call, result, produced, drawn, calls>>

Init ==
    /\ call = [op |-> "none"]
    /\ result = NoneV
    /\ produced = <<>>
    /\ drawn = <<>>
    /\ calls = 0

\* the uuid4 draws of a call: the number of draws does not depend on the
\* values drawn, so it is read off a run with a fixed value
FixedDraws == [i \in Nat |-> Hex8(0)]
DrawsOf(r) == [1..r.st.draws -> Uuid4Hex8]

Finish(c, r, rnd) ==
    /\ call' = c
    /\ result' = r
    /\ drawn' = rnd
    /\ produced' = produced \o r.st.made
    /\ calls' = calls + 1

\* converter.json_schema_to_pydantic(tool_name, json_schema)
Convert ==
    /\ calls < MaxCalls
    /\ \E in \in ConvertInputs(calls) :
         \E rnd \in DrawsOf(JsonSchemaToPydantic(in.tool_name, in.schema, NoEffects, FixedDraws)) :
            Finish([op |-> "convert", tool_name |-> in.tool_name, schema |-> in.schema],
                   JsonSchemaToPydantic(in.tool_name, in.schema, NoEffects, rnd), rnd)

\* converter._json_type_to_python(field_schema), field_name left at "Field"
Resolve ==
    /\ calls < MaxCalls
    /\ \E node \in ResolveInputs(calls) :
         \E rnd \in DrawsOf(JsonTypeToPython(node, NameField, NoEffects, FixedDraws)) :
            Finish([op |-> "resolve", schema |-> node, field_name |-> NameField],
                   JsonTypeToPython(node, NameField, NoEffects, rnd), rnd)

\* converter._create_pydantic_model(field_name, properties, required_fields)
BuildRecord ==
    /\ calls < MaxCalls
    /\ \E in \in BuildInputs(calls) :
         \E rnd \in DrawsOf(CreatePydanticModel(NameField, in.properties, in.required,
                                                 NoEffects, FixedDraws)) :
            Finish([op |-> "build", field_name |-> NameField,
                    properties |-> in.properties, required |-> in.required],
                   CreatePydanticModel(NameField, in.properties, in.required, NoEffects, rnd), rnd)

Next == Convert \/ Resolve \/ BuildRecord

Spec == Init /\ [][Next]_vars

(***************************************************************************)
(* Properties.                                                             *)
(***************************************************************************)
\* the draws of the last call, extended so that a rerun that draws more
\* often than the call did still finds a value
PadDraws == [i \in Nat |-> IF i \in 1..Len(drawn) THEN drawn[i] ELSE Hex8(0)]

\* ty is what prop_schema resolves to under context name ctx, at some point
\* of the last call's sequence of draws
ResolvesTo(prop_schema, ctx, ty) ==
    \E k \in 0..Len(drawn) :
        LET r == JsonTypeToPython(prop_schema, ctx, [draws |-> k, made |-> <<>>], PadDraws)
        IN  r.ok /\ r.ty = ty

Resolved == call.op = "resolve"
Converted == call.op = "convert"
Built == call.op = "build"

\* the keywords that an in-contract schema node may use
ContractKeys ==
    {"type", "enum", "allOf", "anyOf", "oneOf", "items", "properties", "required",
     "format", "$ref"}

\* C1: resolving an in-contract schema node never raises: it returns a type.
C1_NeverRaises ==
    (Resolved /\ DOMAIN call.schema \subseteq ContractKeys) => result.ok

IsHexDigit(c) == \E i \in 1..Len(HexDigits) : HexDigits[i] = c
\* Generated_<contextName>_<8 hex characters>
IsGeneratedName(n) ==
    /\ Len(n) >= Len(GeneratedPrefix) + 1 + SuffixLen
    /\ SubSeq(n, 1, Len(GeneratedPrefix)) = GeneratedPrefix
    /\ n[Len(n) - SuffixLen] = "_"
    /\ \A k \in (Len(n) - SuffixLen + 1)..Len(n) : IsHexDigit(n[k])

\* C5: any two record types that the process has produced, in one call or
\* in different calls, have different names of the form
\* Generated_<contextName>_<8 hex characters>.
C5_NamesNeverCollide ==
    /\ \A i \in 1..Len(produced) : IsGeneratedName(produced[i])
    /\ \A i, j \in 1..Len(produced) : i # j => produced[i] # produced[j]

\* the reference of claim C8 for a node with an enum key
EnumReference(node) ==
    LET e == node["enum"]
        nonNull == SelectSeq(e, LAMBDA v : ~IsNull(v))
        hasNull == \E i \in 1..Len(e) : IsNull(e[i])
        literal == [t |-> "Literal",
                    values |-> DedupValues([i \in 1..Len(nonNull) |-> nonNull[i].str], 1, <<>>)]
        declared == IF Has(node, "type") THEN node["type"] ELSE [str |-> "string"]
    IN  IF Len(e) = 0 THEN StrT
        ELSE IF Len(nonNull) = 0 THEN NoneTypeT
        ELSE IF \A i \in 1..Len(nonNull) : IsStr(nonNull[i])
        THEN (IF hasNull THEN [t |-> "Union", args |-> <<literal, NoneTypeT>>] ELSE literal)
        ELSE IF IsStr(declared) /\ declared.str = "string" THEN StrT
        ELSE IF IsStr(declared) /\ declared.str = "number" THEN FloatT
        ELSE IF IsStr(declared) /\ declared.str = "integer" THEN IntT
        ELSE IF IsStr(declared) /\ declared.str = "boolean" THEN BoolT
        ELSE IF IsStr(declared) /\ declared.str = "null" THEN NoneTypeT
        ELSE AnyT

\* C8: a node with an enum key (and no $ref) resolves to the reference:
\* empty enum -> str; only null -> NoneType; all non-null values strings ->
\* the Literal over them in order, or-None iff the enum holds null; otherwise
\* the simple-type table on the declared type, "string" when absent.
C8_EnumMatchesReference ==
    (Resolved /\ Has(call.schema, "enum") /\ ~Has(call.schema, "$ref"))
        => (result.ok /\ result.ty = EnumReference(call.schema))

\* the condition of dispatch rule k, taken alone
RuleMatches(node, k) ==
    LET ty == IF Has(node, "type") THEN node["type"] ELSE NoneV
    IN  CASE k = 1 -> DOMAIN node = {}
          [] k = 2 -> Has(node, "$ref")
          [] k = 3 -> Has(node, "enum")
          [] k = 4 -> Has(node, "allOf")
          [] k = 5 -> Has(node, "anyOf") \/ Has(node, "oneOf")
          [] k = 6 -> IsList(ty)
          [] k = 7 -> IsStr(ty) /\ ty.str = "array"
          [] k = 8 -> IsStr(ty) /\ ty.str = "object"
          [] k = 9 -> IsStr(ty) /\ ty.str = "string" /\ Has(node, "format")
          [] OTHER -> TRUE
LowestRule(node) ==
    CHOOSE k \in 1..10 : RuleMatches(node, k) /\ \A j \in 1..(k - 1) : ~RuleMatches(node, j)
\* the keywords that the condition of rule k looks at
RuleKeys(k) ==
    CASE k = 2 -> {"$ref"}
      [] k = 3 -> {"enum"}
      [] k = 4 -> {"allOf"}
      [] k = 5 -> {"anyOf", "oneOf"}
      [] k \in {6, 7, 8, 10} -> {"type"}
      [] k = 9 -> {"type", "format"}
      [] OTHER -> {}
\* the keywords of the rules after rule k that no rule up to k looks at
LaterKeys(k) ==
    UNION { RuleKeys(j) : j \in (k + 1)..10 } \ UNION { RuleKeys(j) : j \in 1..k }
Without(node, keys) == [x \in DOMAIN node \ keys |-> node[x]]
\* some non-null value of the node's enum is not a string
EnumFallsBack(node) ==
    \E i \in 1..Len(node["enum"]) : ~IsNull(node["enum"][i]) /\ ~IsStr(node["enum"][i])

\* C2 as stated: a node is handled by the lowest-numbered rule it matches,
\* and removing the keywords of the higher-numbered rules does not change
\* the result.
C2_FirstMatchLaterKeysInert ==
    Resolved =>
        LET k == LowestRule(call.schema)
        IN  /\ result = ApplyRule(k, call.schema, call.field_name, NoEffects, PadDraws)
            /\ result = JsonTypeToPython(Without(call.schema, LaterKeys(k)),
                                         call.field_name, NoEffects, PadDraws)

\* C2 amended: a node is handled by the lowest-numbered rule it matches, and
\* removing the keywords of the higher-numbered rules does not change the
\* result, except that under rule 3 the enum handling reads "type" when some
\* non-null enum value is not a string.
C2_FirstMatchWins ==
    Resolved =>
        LET k == LowestRule(call.schema)
            inert == IF k = 3 /\ EnumFallsBack(call.schema)
                     THEN LaterKeys(k) \ {"type"} ELSE LaterKeys(k)
        IN  /\ result = ApplyRule(k, call.schema, call.field_name, NoEffects, PadDraws)
            /\ result = JsonTypeToPython(Without(call.schema, inert),
                                         call.field_name, NoEffects, PadDraws)

\* a node with enum, allOf and type keys, resolved by the enum rule through
\* its fallback on "type"
C2_Witness ==
    /\ Resolved
    /\ LowestRule(call.schema) = 3
    /\ Has(call.schema, "allOf") /\ Has(call.schema, "type") /\ Has(call.schema, "format")
    /\ result.ok /\ result.ty = IntT

\* resolving prop_schema raises (whether it does is independent of the draws)
Raises(prop_schema, ctx) == ~JsonTypeToPython(prop_schema, ctx, NoEffects, PadDraws).ok
\* ft is "ty or null": the alternatives of ty, followed by NoneType unless
\* NoneType is one of them
IsOptionalOf(ft, ty) ==
    LET a == UnionArgs(ty)
    IN  UnionArgs(ft) = IF \E i \in 1..Len(a) : a[i] = NoneTypeT THEN a ELSE Append(a, NoneTypeT)

\* C3: a record-builder call with properties P and required list R returns,
\* unless resolving a property raises, a record with one field per key of P,
\* in order, and no others; a field named in R is required, without default,
\* of its resolved type; any other field is (resolved type or None) with
\* default None; names of R that are no key of P add no field and no error.
C3_RecordFields ==
    Built =>
        LET P == call.properties
            R == call.required
        IN  /\ result.ok <=> \A i \in 1..Len(P) : ~Raises(P[i].schema, Title(P[i].name))
            /\ result.ok =>
                /\ result.ty.t = "Model"
                /\ Len(result.ty.fields) = Len(P)
                /\ \A i \in 1..Len(P) :
                     LET f == result.ty.fields[i]
                     IN  /\ f.name = P[i].name
                         /\ IF \E j \in 1..Len(R) : R[j] = P[i].name
                            THEN /\ f.required /\ f.default = "Ellipsis"
                                 /\ ResolvesTo(P[i].schema, Title(P[i].name), f.type)
                            ELSE /\ ~f.required /\ f.default = "None"
                                 /\ \E k \in 0..Len(drawn) :
                                      LET r == JsonTypeToPython(P[i].schema, Title(P[i].name),
                                                   [draws |-> k, made |-> <<>>], PadDraws)
                                      IN  IsOptionalOf(f.type, r.ty)

\* a record built from two properties, one required and one not, with a
\* required name that is no property
C3_Witness ==
    /\ Built /\ result.ok
    /\ Len(call.properties) = 2
    /\ call.required = <<NameZ, NameX>>
    /\ \E i, j \in 1..2 : result.ty.fields[i].required /\ ~result.ty.fields[j].required

\* the schema of the example of claim C7
ExampleSchema ==
    TypeNode("object") @@ ("properties" :> <<Prop(NameX, StringNode)>>)
                       @@ ("required" :> <<NameX>>)
ExampleCall == Converted /\ call.tool_name = ToolMyTool /\ call.schema = ExampleSchema
\* the part of a generated name between "Generated_" and "_<suffix>"
BaseOf(name) == SubSeq(name, Len(GeneratedPrefix) + 1, Len(name) - SuffixLen - 1)
OneRequiredStringX(ty) ==
    /\ ty.t = "Model"
    /\ Len(ty.fields) = 1
    /\ ty.fields[1].name = NameX /\ ty.fields[1].required /\ ty.fields[1].type = StrT

\* C7 as stated: the example schema under tool name "My Tool" gives a
\* record with name base MyToolSchema and the single required str field x.
C7_BaseMyToolSchema ==
    ExampleCall =>
        /\ result.ok
        /\ BaseOf(result.ty.name) = <<"M","y","T","o","o","l","S","c","h","e","m","a">>
        /\ OneRequiredStringX(result.ty)

\* C7 amended: the example schema under tool name "My Tool" gives a record
\* named Generated_My_ToolSchema_<suffix> (the space becomes an underscore)
\* with the single required str field x.
C7_BaseMyUnderscoreToolSchema ==
    ExampleCall =>
        /\ result.ok
        /\ BaseOf(result.ty.name) = <<"M","y","_","T","o","o","l","S","c","h","e","m","a">>
        /\ result.ty.name = GeneratedPrefix \o BaseOf(result.ty.name) \o <<"_">> \o drawn[1]
        /\ OneRequiredStringX(result.ty)

C7_Witness == ExampleCall /\ result.ok /\ Len(result.ty.fields) = 1

\* the required list that the object branch hands on
RequiredOrEmpty(node) == IF Has(node, "required") THEN node["required"] ELSE <<>>
ObjectBranch == Resolved /\ LowestRule(call.schema) = 8

\* C10 as stated: in the object branch the result is the record builder's
\* for the node's properties and required whenever the properties key is
\* present, also with no entries, and dict only when it is absent; the
\* top-level convert call always returns a record.
C10_RecordWheneverKeyPresent ==
    /\ ObjectBranch =>
         IF Has(call.schema, "properties")
         THEN result = CreatePydanticModel(call.field_name, call.schema["properties"],
                                           RequiredOrEmpty(call.schema), NoEffects, PadDraws)
         ELSE result = Ok(DictT, NoEffects)
    /\ (Converted /\ result.ok) => result.ty.t = "Model"

\* C10 amended: in the object branch the result is the record builder's for
\* the node's properties and required when properties is present and has
\* entries, and dict when properties is absent or empty; the top-level
\* convert call returns a record also for absent or empty properties.
C10_RecordWhenPropertiesNonEmpty ==
    /\ ObjectBranch =>
         IF Has(call.schema, "properties") /\ Len(call.schema["properties"]) > 0
         THEN result = CreatePydanticModel(call.field_name, call.schema["properties"],
                                           RequiredOrEmpty(call.schema), NoEffects, PadDraws)
         ELSE result = Ok(DictT, NoEffects)
    /\ (Converted /\ result.ok) => result.ty.t = "Model"

\* an object node whose properties mapping has no entries, resolved to dict
C10_Witness ==
    /\ ObjectBranch
    /\ Has(call.schema, "properties") /\ Len(call.schema["properties"]) = 0
    /\ result = Ok(DictT, NoEffects)

\* a type with the identity and the generated name of every model erased
RECURSIVE Shape(_)
Shape(ty) ==
    IF ty.t = "Model"
    THEN [t |-> "Model",
          fields |-> [i \in 1..Len(ty.fields) |->
                        [name |-> ty.fields[i].name, required |-> ty.fields[i].required,
                         type |-> Shape(ty.fields[i].type)]]]
    ELSE IF ty.t = "Union" THEN [t |-> "Union", args |-> [i \in 1..Len(ty.args) |-> Shape(ty.args[i])]]
    ELSE IF ty.t = "list_of" THEN [t |-> "list_of", item |-> Shape(ty.item)]
    ELSE IF ty.t = "Literal" THEN [t |-> "Literal", values |-> { ty.values[i] : i \in 1..Len(ty.values) }]
    ELSE ty
StructEq(a, b) == Shape(a) = Shape(b)

RECURSIVE Flattened(_, _)
Flattened(types, i) ==
    IF i > Len(types) THEN <<>> ELSE UnionArgs(types[i]) \o Flattened(types, i + 1)

UnionCall == Resolved /\ LowestRule(call.schema) \in {5, 6}
\* the outcome of resolving the alternatives of the last call's node, one by
\* one: [ok, types, st], or the raise of a branch
Alternatives ==
    IF LowestRule(call.schema) = 6
    THEN [ok |-> TRUE,
          types |-> [i \in 1..Len(call.schema["type"].list) |->
                        TypeUnionMapping(call.schema["type"].list[i])]]
    ELSE UnionLoop(call.schema[IF Has(call.schema, "anyOf") THEN "anyOf" ELSE "oneOf"],
                   1, call.field_name, <<>>, NoEffects, PadDraws)
\* seq holds, in first-seen order, one member of alts for every class of
\* eq-equal members
IsOrderedDedupOf(seq, alts, eq(_, _)) ==
    LET first(x) == CHOOSE i \in 1..Len(alts) :
                        eq(alts[i], x) /\ \A j \in 1..(i - 1) : ~eq(alts[j], x)
    IN  /\ \A i \in 1..Len(alts) : \E j \in 1..Len(seq) : eq(seq[j], alts[i])
        /\ \A j \in 1..Len(seq) : \E i \in 1..Len(alts) : eq(alts[i], seq[j])
        /\ \A j \in 1..Len(seq) : seq[j] = alts[first(seq[j])]
        /\ \A i, j \in 1..Len(seq) : i < j => first(seq[i]) < first(seq[j])

\* C4 as stated: the result of an anyOf / oneOf node or of a type list holds
\* no two structurally equal alternatives (two records of the same shape
\* count as equal): it is the first-seen-ordered list of the structurally
\* distinct alternatives, without union wrapper when there is one.
C4_NoStructurallyEqualAlternatives ==
    (UnionCall /\ result.ok) =>
        LET args == UnionArgs(result.ty)
        IN  /\ \A i, j \in 1..Len(args) : i # j => ~StructEq(args[i], args[j])
            /\ IsOrderedDedupOf(args, Flattened(Alternatives.types, 1), StructEq)
            /\ result.ty.t = "Union" => Len(args) >= 2

\* C4 amended: the result holds no two equal alternatives, where scalar,
\* literal and sequence types are equal when structurally equal and a
\* generated record type is equal to itself only: it is the first-seen-
\* ordered list of the distinct alternatives, without union wrapper when
\* there is one, so two branches of the same object shape stay two
\* alternatives; a raise of a branch is the raise of the node, and an empty
\* list raises IndexError.
C4_DistinctAlternatives ==
    UnionCall =>
        LET alt == Alternatives
        IN  IF ~alt.ok THEN ~result.ok /\ result.exc = alt.exc
            ELSE IF Len(alt.types) = 0 THEN ~result.ok /\ result.exc = "IndexError"
            ELSE /\ result.ok
                 /\ \A i, j \in 1..Len(UnionArgs(result.ty)) :
                        i # j => ~TypeEq(UnionArgs(result.ty)[i], UnionArgs(result.ty)[j])
                 /\ IsOrderedDedupOf(UnionArgs(result.ty), Flattened(alt.types, 1), TypeEq)
                 /\ result.ty.t = "Union" => Len(result.ty.args) >= 2

\* a union of two record types of the same shape and of different names,
\* built for two branches
C4_Witness ==
    /\ UnionCall /\ result.ok
    /\ result.ty.t = "Union" /\ Len(result.ty.args) = 2
    /\ result.ty.args[1].t = "Model" /\ result.ty.args[2].t = "Model"
    /\ StructEq(result.ty.args[1], result.ty.args[2])
    /\ result.ty.args[1].name # result.ty.args[2].name

(***************************************************************************)
(* allOf: the property declarations of a node, in the order the code       *)
(* visits them.  A declaration is direct (a branch's own properties) or    *)
(* comes from a variant of a branch's anyOf / oneOf.                       *)
(***************************************************************************)
PropertiesOrEmpty(node) == IF Has(node, "properties") THEN node["properties"] ELSE <<>>
VariantEvents(branch, key) ==
    IF Has(branch, key)
    THEN [i \in 1..Len(branch[key]) |->
            [props |-> PropertiesOrEmpty(branch[key][i]), direct |-> FALSE]]
    ELSE <<>>
BranchEvents(branch) ==
    <<[props |-> PropertiesOrEmpty(branch), direct |-> TRUE]>>
        \o VariantEvents(branch, "anyOf") \o VariantEvents(branch, "oneOf")
RECURSIVE EventsFrom(_, _)
EventsFrom(branches, i) ==
    IF i > Len(branches) THEN <<>> ELSE BranchEvents(branches[i]) \o EventsFrom(branches, i + 1)
Events(node) == EventsFrom(node["allOf"], 1)
DeclaredNames(node) == UNION { PropNames(Events(node)[i].props) : i \in 1..Len(Events(node)) }
DirectAt(node, p) ==
    { i \in 1..Len(Events(node)) : Events(node)[i].direct /\ p \in PropNames(Events(node)[i].props) }
VariantAt(node, p) ==
    { i \in 1..Len(Events(node)) : ~Events(node)[i].direct /\ p \in PropNames(Events(node)[i].props) }
MaxOf(S) == CHOOSE x \in S : \A y \in S : y <= x
MinOf(S) == CHOOSE x \in S : \A y \in S : x <= y
SchemaAt(node, i, p) == PropGet(Events(node)[i].props, p)
\* some branch's required list names p
NamedRequired(node, p) ==
    \E i \in 1..Len(node["allOf"]) :
        /\ Has(node["allOf"][i], "required")
        /\ \E j \in 1..Len(node["allOf"][i]["required"]) : node["allOf"][i]["required"][j] = p
\* the last direct declaration of p, else the first declaration by a variant
LastDirectElseFirstVariant(node, p) ==
    IF DirectAt(node, p) # {} THEN SchemaAt(node, MaxOf(DirectAt(node, p)), p)
    ELSE SchemaAt(node, MinOf(VariantAt(node, p)), p)
\* first-seen wins for a name first declared by a variant
FirstSeenIfVariant(node, p) ==
    IF MinOf(DirectAt(node, p) \cup VariantAt(node, p)) \in VariantAt(node, p)
    THEN SchemaAt(node, MinOf(VariantAt(node, p)), p)
    ELSE SchemaAt(node, MaxOf(DirectAt(node, p)), p)
\* field f is the record builder's field for prop_schema with that requiredness
FieldIs(f, prop_schema, required) ==
    IF required
    THEN f.required /\ f.default = "Ellipsis" /\ ResolvesTo(prop_schema, Title(f.name), f.type)
    ELSE /\ ~f.required /\ f.default = "None"
         /\ \E k \in 0..Len(drawn) :
              LET r == JsonTypeToPython(prop_schema, Title(f.name),
                                        [draws |-> k, made |-> <<>>], PadDraws)
              IN  r.ok /\ IsOptionalOf(f.type, r.ty)
\* the result is one record with exactly one field per declared name
OneFieldPerName(node) ==
    /\ result.ok /\ result.ty.t = "Model"
    /\ Len(result.ty.fields) = Cardinality(DeclaredNames(node))
    /\ { result.ty.fields[i].name : i \in 1..Len(result.ty.fields) } = DeclaredNames(node)
\* the last branch that declares a type says "array"
LastTypeIsArray(node) ==
    \E i \in 1..Len(node["allOf"]) :
        /\ TruthyType(node["allOf"][i])
        /\ IsStr(node["allOf"][i]["type"]) /\ node["allOf"][i]["type"].str = "array"
        /\ \A j \in (i + 1)..Len(node["allOf"]) : ~TruthyType(node["allOf"][j])

AllOfCall == Resolved /\ LowestRule(call.schema) = 4
HasVariants(node) ==
    \E i \in 1..Len(node["allOf"]) : Has(node["allOf"][i], "anyOf") \/ Has(node["allOf"][i], "oneOf")
DeclaresProperties(node) ==
    \E i \in 1..Len(node["allOf"]) : Has(node["allOf"][i], "properties")
PlainAllOf == AllOfCall /\ ~HasVariants(call.schema) /\ DeclaresProperties(call.schema)

\* C6 as stated: for an allOf node whose branches declare properties, without
\* nested anyOf / oneOf, the result is one record whose fields are the union
\* of the branches' property names, each with the schema of the last branch
\* declaring it, required iff some branch's required list names it.
C6_AlwaysOneMergedRecord ==
    PlainAllOf =>
        /\ OneFieldPerName(call.schema)
        /\ \A i \in 1..Len(result.ty.fields) :
             LET f == result.ty.fields[i]
             IN  FieldIs(f, LastDirectElseFirstVariant(call.schema, f.name),
                         NamedRequired(call.schema, f.name))

\* C6 amended: for such a node, when some branch declares a property, the
\* result is one record whose fields are the union of the branches' property
\* names, each with the schema of the last branch declaring it, required iff
\* some branch's required list names it (a raise of one of these schemas is
\* the raise of the node); when every declared mapping is empty the result is
\* dict, or list if the last branch declaring a type says "array"; keys on
\* the allOf node itself play no part.
C6_MergedRecordWhenNonEmpty ==
    PlainAllOf =>
        IF DeclaredNames(call.schema) = {}
        THEN result = Ok(IF LastTypeIsArray(call.schema) THEN ListT ELSE DictT, NoEffects)
        ELSE /\ result.ok <=>
                  \A p \in DeclaredNames(call.schema) :
                      ~Raises(LastDirectElseFirstVariant(call.schema, p), Title(p))
             /\ result.ok =>
                  /\ OneFieldPerName(call.schema)
                  /\ \A i \in 1..Len(result.ty.fields) :
                       LET f == result.ty.fields[i]
                       IN  FieldIs(f, LastDirectElseFirstVariant(call.schema, f.name),
                                   NamedRequired(call.schema, f.name))

\* two branches declaring x with different schemas, keys on the node itself,
\* and a record whose field x has the schema of the second branch
C6_Witness ==
    /\ PlainAllOf /\ result.ok /\ result.ty.t = "Model"
    /\ Has(call.schema, "properties") /\ Has(call.schema, "required")
    /\ Len(call.schema["allOf"]) = 2
    /\ Cardinality(DirectAt(call.schema, NameX)) = 2
    /\ SchemaAt(call.schema, 1, NameX) # SchemaAt(call.schema, 2, NameX)
    /\ \E i \in 1..Len(result.ty.fields) :
         /\ result.ty.fields[i].name = NameX
         /\ ResolvesTo(SchemaAt(call.schema, 2, NameX), Title(NameX), result.ty.fields[i].type)

VariantAllOf ==
    /\ AllOfCall
    /\ \E p \in DeclaredNames(call.schema) : VariantAt(call.schema, p) # {}

====
